---- MODULE Spec2Model ----
(***************************************************************************)
(* A model of the PSI/PMT core of potterxu/gots: the packet accumulator,   *)
(* the PMT completion predicate, the PMT section parser, the CRC           *)
(* extractor, the PID filter/rewriter and the stream reader ReadPMT.       *)
(*                                                                         *)
(* Byte buffers are sequences of 0..255; Go's 0-based b[i] is At(b, i) and *)
(* b[lo:hi] is Slice(b, lo, hi).  Fixed-width arithmetic is done modulo    *)
(* its width.  A Go run-time panic (index or slice out of range, nil       *)
(* dereference) is the outcome "panic".  A slice expression s[lo:hi] is    *)
(* checked against len(s): the model takes every buffer with cap = len;    *)
(* with spare capacity the same expression reads bytes past the logical    *)
(* end of the buffer instead of panicking.                                 *)
(***************************************************************************)
EXTENDS Integers, Sequences, FiniteSets, TLC

VARIABLES accSt, parseSt, filtSt, readSt, crcSt

vars == <<accSt, parseSt, filtSt, readSt, crcSt>>

(***************************************************************************)
(* Bounds of the model.                                                    *)
(***************************************************************************)
\* WritePacket calls made on one Accumulator.
MaxWrites == 4
\* Elementary-stream entries of a generated PMT.
MaxStreams == 3
\* RemoveElementaryStreams calls made on one parsed PMT.
MaxRemoves == 2
\* Packets of a packet source handed to ReadPMT.
MaxSource == 3

(***************************************************************************)
(* Program constants.                                                      *)
(***************************************************************************)
PacketSize == 188
PatPid == 0
programInfoLengthOffset == 10
pmtEsDescriptorStaticLen == 5
PSIHeaderLen == 4
CrcLen == 4

Idle == [on |-> FALSE]

(***************************************************************************)
(* Bytes and fixed-width integers.                                         *)
(***************************************************************************)
At(b, i) == b[i + 1]

Slice(b, lo, hi) == SubSeq(b, lo + 1, hi)

U8(x) == x % 256

U16(x) == x % 65536

Fill(n, v) == [i \in 1..n |-> v]

RECURSIVE Concat(_)
Concat(ss) == IF ss = <<>> THEN <<>> ELSE Head(ss) \o Concat(Tail(ss))

Range(s) == {s[i] : i \in 1..Len(s)}

RECURSIVE XorBits(_, _, _)
XorBits(a, b, n) ==
  IF n = 0 THEN 0
  ELSE ((a + b) % 2) + 2 * XorBits(a \div 2, b \div 2, n - 1)

XorNibble == [a \in 0..15 |-> [b \in 0..15 |-> XorBits(a, b, 4)]]

XorByte(a, b) ==
  16 * XorNibble[a \div 16][b \div 16] + XorNibble[a % 16][b % 16]

(***************************************************************************)
(* gots.ComputeCRC: CRC-32/MPEG-2 (polynomial 0x04C11DB7, initial value    *)
(* 0xFFFFFFFF, no reflection, no final xor), as four big-endian bytes.  A  *)
(* 32-bit register is the tuple of its four bytes, most significant first. *)
(***************************************************************************)
CrcPoly == <<4, 193, 29, 183>>

Xor32(x, y) == [i \in 1..4 |-> XorByte(x[i], y[i])]

Shl1(x) ==
  <<U8(2 * x[1] + x[2] \div 128), U8(2 * x[2] + x[3] \div 128),
    U8(2 * x[3] + x[4] \div 128), U8(2 * x[4])>>

RECURSIVE CrcShift(_, _)
CrcShift(x, n) ==
  IF n = 0 THEN x
  ELSE CrcShift(IF x[1] >= 128 THEN Xor32(Shl1(x), CrcPoly) ELSE Shl1(x), n - 1)

CrcTable == [i \in 0..255 |-> CrcShift(<<i, 0, 0, 0>>, 8)]

CrcStep(crc, byte) ==
  Xor32(<<crc[2], crc[3], crc[4], 0>>, CrcTable[XorByte(crc[1], byte)])

\* the register after bytes b[lo..hi], by halves to keep the recursion shallow
RECURSIVE CrcUpdate(_, _, _, _)
CrcUpdate(crc, b, lo, hi) ==
  IF lo > hi THEN crc
  ELSE IF lo = hi THEN CrcStep(crc, b[lo])
  ELSE LET mid == (lo + hi) \div 2
           left == CrcUpdate(crc, b, lo, mid)
       IN IF left[1] >= 0 THEN CrcUpdate(left, b, mid + 1, hi) ELSE left

ComputeCRC(b) == CrcUpdate(<<255, 255, 255, 255>>, b, 1, Len(b))

(***************************************************************************)
(* The fixed packet's accessors (package packet).                          *)
(***************************************************************************)
\* adaptation_field_control, bits 0x30 of the fourth header byte
HasAdaptationField(pkt) == (At(pkt, 3) \div 32) % 2 = 1

HasPayload(pkt) == (At(pkt, 3) \div 16) % 2 = 1

payloadStart(pkt) ==
  IF HasAdaptationField(pkt) THEN 4 + 1 + At(pkt, 4) ELSE 4

Header(pkt) == Slice(pkt, 0, payloadStart(pkt))

\* packet.Payload: [ok, bytes]; ok = FALSE is gots.ErrNoPayload
Payload(pkt) ==
  IF ~HasPayload(pkt) THEN [ok |-> FALSE, bytes |-> <<>>]
  ELSE [ok |-> TRUE, bytes |-> Slice(pkt, payloadStart(pkt), Len(pkt))]

Pid(pkt) == (At(pkt, 1) % 32) * 256 + At(pkt, 2)

(***************************************************************************)
(* PSI field accessors (package psi); each indexes its argument, so the    *)
(* callers below check the index against the length first and panic        *)
(* otherwise.                                                              *)
(***************************************************************************)
PointerField(psi) == At(psi, 0)

tableID(psi) == At(psi, 0)

\* the 12-bit section_length of the section that starts at psi[0]
sectionLength(psi) == (At(psi, 1) % 16) * 256 + At(psi, 2)

\* version_number and current_next_indicator of the section at psi[0]
tableVersionAndCNI(psi) ==
  [versionNumber |-> (At(psi, 5) \div 2) % 32,
   currentNextIndicator |-> At(psi, 5) % 2 = 1]

(***************************************************************************)
(* The PMT object and the parser's outcomes.                               *)
(***************************************************************************)
EmptyPMT ==
  [pids |-> <<>>, elementaryStreams |-> <<>>,
   versionNumber |-> 0, currentNextIndicator |-> FALSE]

Ok(p) == [out |-> "ok", err |-> "", pmt |-> p]

Err(e) == [out |-> "err", err |-> e, pmt |-> EmptyPMT]

Panic == [out |-> "panic", err |-> "", pmt |-> EmptyPMT]

NewPmtDescriptor(tag, data) == [tag |-> tag, data |-> data]

NewPmtElementaryStream(streamType, pid, descriptors) ==
  [streamType |-> streamType, elementaryPid |-> pid, descriptors |-> descriptors]

ElementaryPid(es) == es.elementaryPid

(***************************************************************************)
(* pmt.parsePMTSection: the descriptor loop of one elementary stream.      *)
(* offset is past the stream's five static bytes; descriptorOffset and the *)
(* sums are uint16.                                                        *)
(***************************************************************************)
RECURSIVE parseDescriptors(_, _, _, _, _)
parseDescriptors(pmtBytes, offset, infoLength, descriptorOffset, descriptors) ==
  IF ~(descriptorOffset < infoLength) THEN [out |-> "ok", descriptors |-> descriptors]
  ELSE
    LET tagAt == U16(offset + descriptorOffset)
        dOff1 == U16(descriptorOffset + 1)
        lenAt == U16(offset + dOff1)
        dOff2 == U16(dOff1 + 1)
    IN IF tagAt >= Len(pmtBytes) \/ lenAt >= Len(pmtBytes)
       THEN [out |-> "panic", descriptors |-> <<>>]
       ELSE
         LET tag == At(pmtBytes, tagAt)
             descriptorLength == At(pmtBytes, lenAt)
             startPos == U16(offset + dOff2)
             endPos == U16(offset + dOff2 + descriptorLength)
         IN IF endPos < Len(pmtBytes)
            THEN IF startPos > endPos
                 THEN [out |-> "panic", descriptors |-> <<>>]
                 ELSE parseDescriptors(pmtBytes, offset, infoLength,
                        U16(dOff2 + descriptorLength),
                        Append(descriptors,
                               NewPmtDescriptor(tag, Slice(pmtBytes, startPos, endPos))))
            ELSE [out |-> "err", descriptors |-> <<>>]

\* the elementary PID read through a 12-bit mask, 0x0f in place of 0x1f
ElementaryPidAt12Bit(pmtBytes, offset) ==
  (At(pmtBytes, offset + 1) % 16) * 256 + At(pmtBytes, offset + 2)

\* the 13-bit elementary PID of the stream entry at offset
ElementaryPidAt(pmtBytes, offset) ==
  (At(pmtBytes, offset + 1) % 32) * 256 + At(pmtBytes, offset + 2)

\* the 12-bit ES_info_length of the stream entry at offset
InfoLengthAt(pmtBytes, offset) ==
  (At(pmtBytes, offset + 3) % 16) * 256 + At(pmtBytes, offset + 4)

\* the 12-bit program_info_length of the section at pmtBytes[0]
ProgramInfoLengthAt(pmtBytes) ==
  (At(pmtBytes, programInfoLengthOffset) % 16) * 256
    + At(pmtBytes, programInfoLengthOffset + 1)

\* the exclusive end of the elementary-stream loop, in uint16
StreamLoopEnd(sl) ==
  U16(PSIHeaderLen + sl + 2 * 65536 - pmtEsDescriptorStaticLen - CrcLen)

(***************************************************************************)
(* pmt.parsePMTSection: the elementary-stream loop.  A non-zero            *)
(* ES_info_length that does not end inside pmtBytes is not an error: the   *)
(* descriptors are left out and offset is not moved past them.             *)
(***************************************************************************)
RECURSIVE parseStreams(_, _, _, _, _)
parseStreams(pmtBytes, offset, end, pids, elementaryStreams) ==
  IF ~(offset < end)
  THEN [out |-> "ok", pids |-> pids, elementaryStreams |-> elementaryStreams]
  ELSE IF offset + 4 >= Len(pmtBytes)
  THEN [out |-> "panic", pids |-> <<>>, elementaryStreams |-> <<>>]
  ELSE
    LET elementaryStreamType == At(pmtBytes, offset)
        elementaryPid == ElementaryPidAt(pmtBytes, offset)
        infoLength == InfoLengthAt(pmtBytes, offset)
        offset1 == U16(offset + pmtEsDescriptorStaticLen)
        withDescriptors == infoLength # 0 /\ U16(infoLength + offset1) < Len(pmtBytes)
        d == IF withDescriptors
             THEN parseDescriptors(pmtBytes, offset1, infoLength, 0, <<>>)
             ELSE [out |-> "ok", descriptors |-> <<>>]
        offset2 == IF withDescriptors THEN U16(offset1 + infoLength) ELSE offset1
    IN IF d.out # "ok"
       THEN [out |-> d.out, pids |-> <<>>, elementaryStreams |-> <<>>]
       ELSE parseStreams(pmtBytes, offset2, end,
              Append(pids, elementaryPid),
              Append(elementaryStreams,
                     NewPmtElementaryStream(elementaryStreamType, elementaryPid,
                                            d.descriptors)))

(***************************************************************************)
(* pmt.parsePMTSection(pmtBytes) on the pmt p: pmtBytes is one section,    *)
(* from its table id to the end of its CRC.                                *)
(***************************************************************************)
parsePMTSection(p, pmtBytes) ==
  IF Len(pmtBytes) <= programInfoLengthOffset + 1 THEN Err("ErrPMTParse")
  ELSE
    LET v == tableVersionAndCNI(pmtBytes)
        programInfoLength == ProgramInfoLengthAt(pmtBytes)
        r == parseStreams(pmtBytes,
                          U16(programInfoLengthOffset + 2 + programInfoLength),
                          StreamLoopEnd(sectionLength(pmtBytes)), <<>>, <<>>)
    IN CASE r.out = "panic" -> Panic
         [] r.out = "err" -> Err("ErrParsePMTDescriptor")
         [] OTHER -> Ok([pids |-> r.pids,
                         elementaryStreams |-> r.elementaryStreams,
                         versionNumber |-> v.versionNumber,
                         currentNextIndicator |-> v.currentNextIndicator])

(***************************************************************************)
(* pmt.parseTables: the loop over the concatenated sections.  Sections     *)
(* whose table id is not 2 are skipped; a later PMT section overwrites an  *)
(* earlier one.                                                            *)
(***************************************************************************)
RECURSIVE parseSections(_, _)
parseSections(p, sectionBytes) ==
  IF ~(Len(sectionBytes) > 2 /\ At(sectionBytes, 0) # 255) THEN Ok(p)
  ELSE
    LET tableLength == sectionLength(sectionBytes)
    IN IF 3 + tableLength > Len(sectionBytes) THEN Panic
       ELSE
         LET r == IF tableID(sectionBytes) = 2
                  THEN parsePMTSection(p, Slice(sectionBytes, 0, 3 + tableLength))
                  ELSE Ok(p)
         IN IF r.out # "ok" THEN r
            ELSE parseSections(r.pmt,
                   Slice(sectionBytes, 3 + tableLength, Len(sectionBytes)))

\* pmt.parseTables: 1+PointerField(pmtBytes) is a uint8 sum
parseTables(p, pmtBytes) ==
  IF Len(pmtBytes) = 0 THEN Panic
  ELSE LET start == U8(1 + PointerField(pmtBytes))
       IN IF start > Len(pmtBytes) THEN Panic
          ELSE parseSections(p, Slice(pmtBytes, start, Len(pmtBytes)))

\* NewPMT: a PMT, an error with no PMT, or a panic
NewPMT(pmtBytes) == parseTables(EmptyPMT, pmtBytes)

Pids(p) == p.pids

ElementaryStreams(p) == p.elementaryStreams

PIDExists(p, pid) == \E i \in 1..Len(Pids(p)) : Pids(p)[i] = pid

(***************************************************************************)
(* pmt.RemoveElementaryStreams: for each pid of removePids in turn, the    *)
(* first stream with that PID is cut out (the inner loop breaks after one  *)
(* match); then pids is rebuilt from the streams that are left.            *)
(***************************************************************************)
RemoveFirst(streams, pid) ==
  IF \E j \in 1..Len(streams) : ElementaryPid(streams[j]) = pid
  THEN LET j == CHOOSE k \in 1..Len(streams) :
                  /\ ElementaryPid(streams[k]) = pid
                  /\ \A m \in 1..(k - 1) : ElementaryPid(streams[m]) # pid
       IN SubSeq(streams, 1, j - 1) \o SubSeq(streams, j + 1, Len(streams))
  ELSE streams

RECURSIVE RemoveEach(_, _)
RemoveEach(streams, removePids) ==
  IF removePids = <<>> THEN streams
  ELSE RemoveEach(RemoveFirst(streams, Head(removePids)), Tail(removePids))

RemoveElementaryStreams(p, removePids) ==
  LET left == RemoveEach(p.elementaryStreams, removePids)
  IN [p EXCEPT !.elementaryStreams = left,
               !.pids = [i \in 1..Len(left) |-> ElementaryPid(left[i])]]

(***************************************************************************)
(* The wire layout of a PMT, used to build the input buffers: pointer      *)
(* field and stuffing, table id 2, section_length, the nine fixed bytes up *)
(* to program_info_length, the program descriptors, the stream entries and *)
(* the CRC.  Reserved bits are written as ones.                            *)
(***************************************************************************)
EncodeDescriptor(d) == <<d.tag, Len(d.data)>> \o d.data

EncodeDescriptors(ds) == Concat([i \in 1..Len(ds) |-> EncodeDescriptor(ds[i])])

EncodeStream(es) ==
  LET info == EncodeDescriptors(es.descriptors)
  IN <<es.streamType, 224 + es.elementaryPid \div 256, es.elementaryPid % 256,
       240 + Len(info) \div 256, Len(info) % 256>> \o info

EncodeStreams(streams) == Concat([i \in 1..Len(streams) |-> EncodeStream(streams[i])])

\* one PMT section: program 1, version 0, current, PCR PID 0x65
EncodeSection(programInfo, streams) ==
  LET body == <<0, 1, 193, 0, 0, 224, 101,
                240 + Len(programInfo) \div 256, Len(programInfo) % 256>>
                \o programInfo \o EncodeStreams(streams)
      sl == Len(body) + CrcLen
      head == <<2, 176 + sl \div 256, sl % 256>> \o body
  IN head \o ComputeCRC(head)

\* pointer field, that many stuffing bytes, the section, trailing stuffing
EncodePayload(pointer, programInfo, streams, trailing) ==
  <<pointer>> \o Fill(pointer, 255) \o EncodeSection(programInfo, streams)
    \o Fill(trailing, 255)

Patch(b, i, v) == [b EXCEPT ![i + 1] = v]

SeqsUpTo(S, n) == UNION {[1..k -> S] : k \in 0..n}

VideoStream == NewPmtElementaryStream(27, 257, <<>>)

AudioStream ==
  NewPmtElementaryStream(15, 8191, <<NewPmtDescriptor(10, <<101, 110>>)>>)

DataStream ==
  NewPmtElementaryStream(134, 33,
    <<NewPmtDescriptor(5, <<>>), NewPmtDescriptor(14, <<3, 192, 61>>)>>)

StreamKinds == {VideoStream, AudioStream, DataStream}

ProgramInfos == {<<>>, <<5, 2, 67, 85>>}

\* pointer field and trailing stuffing of the generated buffers
Framings == {<<0, 0>>, <<2, 3>>}

WellFormedInputs ==
  {[kind |-> "wellformed", streams |-> ss,
    buf |-> EncodePayload(f[1], pi, ss, f[2])] :
     ss \in SeqsUpTo(StreamKinds, MaxStreams), pi \in ProgramInfos, f \in Framings}

\* pointer field 0, no program descriptors, a video and an audio stream:
\* the audio entry is at 18, its ES_info_length at 21..22, its descriptor's
\* length byte at 24
BasePayload == EncodePayload(0, <<>>, <<VideoStream, AudioStream>>, 0)

\* the twelve fixed bytes of a section whose section_length is sl, and
\* nothing after them beyond what sl declares
ShortSection(sl) ==
  <<0>> \o Slice(Patch(Patch(Slice(BasePayload, 1, 13), 1, 176), 2, sl), 0,
                 IF 3 + sl < 12 THEN 3 + sl ELSE 12)
        \o Fill(3 + sl - 12, 170)

MalformedInputs ==
  {[kind |-> "empty", streams |-> <<>>, buf |-> <<>>],
   [kind |-> "pointerBeyond", streams |-> <<>>, buf |-> <<5, 2, 176>>],
   [kind |-> "truncated", streams |-> <<>>,
    buf |-> Slice(BasePayload, 0, Len(BasePayload) - 1)],
   [kind |-> "truncated", streams |-> <<>>,
    buf |-> Slice(BasePayload, 0, Len(BasePayload) - 6)],
   [kind |-> "truncated", streams |-> <<>>,
    buf |-> Patch(Slice(BasePayload, 0, Len(BasePayload) - 1), 1, 66)],
   [kind |-> "programInfoBeyond", streams |-> <<>>,
    buf |-> Patch(Patch(BasePayload, 11, 255), 12, 255)],
   [kind |-> "esInfoBeyond", streams |-> <<>>,
    buf |-> Patch(Patch(BasePayload, 21, 255), 22, 255)],
   [kind |-> "descriptorBeyond", streams |-> <<>>,
    buf |-> Patch(BasePayload, 24, 255)]}
  \cup {[kind |-> "sectionTooSmall", streams |-> <<>>, buf |-> ShortSection(sl)] :
          sl \in {0, 5, 8, 9, 12}}

ParseInputs == WellFormedInputs \cup MalformedInputs

RemoveChoices == {<<257>>, <<8191, 257>>, <<999>>, <<33, 33>>}

(***************************************************************************)
(* NewPMT on a buffer, then RemoveElementaryStreams calls on the PMT it    *)
(* returned.  kind and streams record how the buffer was built; res keeps  *)
(* what NewPMT returned; before, lastRemove and prevRemove record the      *)
(* PMT before the last removal and the arguments of the last two.          *)
(***************************************************************************)
ParseStart(in) ==
  [on |-> TRUE, phase |-> "input", kind |-> in.kind, streams |-> in.streams,
   buf |-> in.buf, res |-> Ok(EmptyPMT), pmt |-> EmptyPMT, removes |-> 0,
   before |-> EmptyPMT, lastRemove |-> <<>>, prevRemove |-> <<>>]

InitParse ==
  /\ parseSt \in {ParseStart(in) : in \in ParseInputs}
  /\ accSt = Idle /\ filtSt = Idle /\ readSt = Idle /\ crcSt = Idle

DoNewPMT ==
  /\ parseSt.on /\ parseSt.phase = "input"
  /\ LET r == NewPMT(parseSt.buf)
     IN parseSt' = [parseSt EXCEPT !.phase = "parsed", !.res = r, !.pmt = r.pmt]
  /\ UNCHANGED <<accSt, filtSt, readSt, crcSt>>

DoRemoveElementaryStreams(removePids) ==
  /\ parseSt.on /\ parseSt.phase = "parsed" /\ parseSt.res.out = "ok"
  /\ parseSt.removes < MaxRemoves
  /\ parseSt' = [parseSt EXCEPT
                   !.pmt = RemoveElementaryStreams(parseSt.pmt, removePids),
                   !.before = parseSt.pmt,
                   !.removes = parseSt.removes + 1,
                   !.lastRemove = removePids,
                   !.prevRemove = parseSt.lastRemove]
  /\ UNCHANGED <<accSt, filtSt, readSt, crcSt>>

NextParse ==
  \/ DoNewPMT
  \/ \E removePids \in RemoveChoices : DoRemoveElementaryStreams(removePids)

SpecParse == InitParse /\ [][NextParse]_vars

Parsed == parseSt.on /\ parseSt.phase = "parsed"

(***************************************************************************)
(* C2: for every well-formed buffer holding one PMT section with N >= 0    *)
(* elementary-stream entries, each with zero or more descriptors, NewPMT   *)
(* succeeds, ElementaryStreams() and Pids() have N entries, Pids()[i] is   *)
(* the 13-bit PID of the i-th encoded entry, and each stream carries its   *)
(* descriptors in their encoded order.                                     *)
(***************************************************************************)
C2_WellFormedParse ==
  (Parsed /\ parseSt.kind = "wellformed") =>
    LET p == parseSt.res.pmt
        n == Len(parseSt.streams)
    IN /\ parseSt.res.out = "ok"
       /\ Len(ElementaryStreams(p)) = n
       /\ Len(Pids(p)) = n
       /\ \A i \in 1..n :
            /\ Pids(p)[i] = parseSt.streams[i].elementaryPid
            /\ ElementaryPid(ElementaryStreams(p)[i]) = parseSt.streams[i].elementaryPid
            /\ ElementaryStreams(p)[i].descriptors = parseSt.streams[i].descriptors

\* a parsed three-stream PMT whose last stream has two descriptors and whose
\* second stream has the largest 13-bit PID
C2_Witness ==
  /\ Parsed /\ parseSt.kind = "wellformed"
  /\ parseSt.streams = <<VideoStream, AudioStream, DataStream>>
  /\ Pids(parseSt.res.pmt) = <<257, 8191, 33>>
  /\ Len(ElementaryStreams(parseSt.res.pmt)[3].descriptors) = 2

(***************************************************************************)
(* C7: after a RemoveElementaryStreams call that removes pid,              *)
(* PIDExists(pid) is false and neither Pids() nor ElementaryStreams()      *)
(* holds pid; a second removal of the same pids changes nothing; and       *)
(* Pids() is the list of the ElementaryPid() of ElementaryStreams().       *)
(***************************************************************************)
C7_RemovalIdempotent ==
  (Parsed /\ parseSt.removes >= 1) =>
    LET p == parseSt.pmt
    IN /\ \A pid \in Range(parseSt.lastRemove) :
            /\ ~PIDExists(p, pid)
            /\ \A i \in 1..Len(ElementaryStreams(p)) :
                 ElementaryPid(ElementaryStreams(p)[i]) # pid
       /\ (parseSt.removes >= 2 /\ parseSt.lastRemove = parseSt.prevRemove)
            => p = parseSt.before
       /\ Pids(p) = [i \in 1..Len(ElementaryStreams(p)) |->
                       ElementaryPid(ElementaryStreams(p)[i])]

(***************************************************************************)
(* C8: NewPMT returns a PMT or an error on every buffer, never panics or   *)
(* reads out of bounds; and a pointer field, section_length,               *)
(* program_info_length, ES_info_length or descriptor length that describes *)
(* a range not contained in the buffer (a section_length too small for the *)
(* fixed fields and the CRC included) gives a parse error and no PMT.      *)
(***************************************************************************)
C8_MalformedIsParseError ==
  Parsed =>
    /\ parseSt.res.out \in {"ok", "err"}
    /\ parseSt.kind # "wellformed" => parseSt.res.out = "err"

(***************************************************************************)
(* The Accumulator (package packet): an append-only buffer, a completion   *)
(* predicate f and a done flag.  WritePacket appends the packet's payload, *)
(* asks the predicate about the buffer as it stands after the append, and  *)
(* on done records completion and returns ErrAccumulatorDone.  Done is     *)
(* terminal: a write to a done accumulator is not accepted and leaves the  *)
(* buffer as it is.  Both predicates of this model never report an error.  *)
(***************************************************************************)
\* the doneFunc of TestPacketAccumulator, done at one byte less: < for <=
dFuncOffByOne(b) == ~(Len(b) < PacketSize)

\* the doneFunc of TestPacketAccumulator: done once more than PacketSize
\* bytes are accumulated
dFunc(b) == ~(Len(b) <= PacketSize)

RECURSIVE doneSections(_)
doneSections(sectionBytes) ==
  IF Len(sectionBytes) > 2 /\ At(sectionBytes, 0) # 255
  THEN LET tableLength == sectionLength(sectionBytes)
       IN IF Len(sectionBytes) < tableLength + 3 THEN FALSE
          ELSE doneSections(Slice(sectionBytes, 3 + tableLength, Len(sectionBytes)))
  ELSE TRUE

\* PmtAccumulatorDoneFunc: 1 + int(PointerField(b)) is an int sum
PmtAccumulatorDoneFunc(b) ==
  IF Len(b) < 1 THEN FALSE
  ELSE LET start == 1 + PointerField(b)
       IN IF Len(b) < start THEN FALSE
          ELSE doneSections(Slice(b, start, Len(b)))

ApplyDoneFunc(f, b) ==
  IF f = "dFunc" THEN dFunc(b) ELSE PmtAccumulatorDoneFunc(b)

NewAccumulator(f) == [f |-> f, buf |-> <<>>, done |-> FALSE]

Bytes(a) == a.buf

WritePacket(a, pkt) ==
  IF a.done THEN [acc |-> a, outcome |-> "rejected"]
  ELSE LET buf == a.buf \o Payload(pkt).bytes
           done == ApplyDoneFunc(a.f, buf)
       IN [acc |-> [a EXCEPT !.buf = buf, !.done = done],
           outcome |-> IF done THEN "ErrAccumulatorDone" ELSE "nil"]

(***************************************************************************)
(* Packets: sync byte, PUSI flag and PID, adaptation_field_control, an     *)
(* optional adaptation field of afLen bytes after its length byte          *)
(* (afLen = -1: none), the payload, and 0xFF up to PacketSize.             *)
(***************************************************************************)
MakePacket(pid, pusi, afLen, payload) ==
  LET head == <<71, (IF pusi THEN 64 ELSE 0) + pid \div 256, pid % 256,
                IF afLen < 0 THEN 16 ELSE 48>>
              \o (IF afLen < 0 THEN <<>> ELSE <<afLen>> \o Fill(afLen, 0))
  IN head \o payload \o Fill(PacketSize - Len(head) - Len(payload), 255)

\* payloads of 184, 100, 50 and 4 bytes
AccPackets ==
  {MakePacket(100, TRUE, -1, Fill(184, 17)),
   MakePacket(100, FALSE, 83, Fill(100, 34)),
   MakePacket(100, FALSE, 133, Fill(50, 68)),
   MakePacket(100, FALSE, 179, Fill(4, 51))}

(***************************************************************************)
(* An Accumulator with the test's doneFunc, fed one packet at a time.      *)
(* calls, doneSignals, lastOutcome and prevLen record the calls made, the  *)
(* ErrAccumulatorDone outcomes returned, the last outcome and the buffer   *)
(* length before the last call.                                            *)
(***************************************************************************)
InitAcc ==
  /\ accSt = [on |-> TRUE, a |-> NewAccumulator("dFunc"), calls |-> 0,
              doneSignals |-> 0, lastOutcome |-> "none", prevLen |-> 0]
  /\ parseSt = Idle /\ filtSt = Idle /\ readSt = Idle /\ crcSt = Idle

DoWritePacket(pkt) ==
  /\ accSt.on /\ accSt.calls < MaxWrites
  /\ LET w == WritePacket(accSt.a, pkt)
     IN accSt' = [accSt EXCEPT
                    !.a = w.acc,
                    !.calls = accSt.calls + 1,
                    !.doneSignals = accSt.doneSignals
                       + (IF w.outcome = "ErrAccumulatorDone" THEN 1 ELSE 0),
                    !.lastOutcome = w.outcome,
                    !.prevLen = Len(Bytes(accSt.a))]
  /\ UNCHANGED <<parseSt, filtSt, readSt, crcSt>>

NextAcc == \E pkt \in AccPackets : DoWritePacket(pkt)

SpecAcc == InitAcc /\ [][NextAcc]_vars

TargetPid == 100

\* what ReadPMT does once WritePacket returned ErrAccumulatorDone, without
\* its check for a PMT that has no PIDs
ReadPMTOnDoneKeepEmpty(a) == [do |-> "return", result |-> NewPMT(Bytes(a))]

\* what ReadPMT does once WritePacket returned ErrAccumulatorDone: parse, and
\* either return (the PMT, or the parser's error) or start over
ReadPMTOnDone(a) ==
  LET r == NewPMT(Bytes(a))
  IN IF r.out # "ok" THEN [do |-> "return", result |-> r]
     ELSE IF Len(Pids(r.pmt)) = 0 THEN [do |-> "restart", result |-> r]
     ELSE [do |-> "return", result |-> r]

\* a PMT too long for one packet: 180 bytes of program descriptors, one stream
BigProgramInfo == <<5, 178>> \o Fill(178, 65)

BigPayload == EncodePayload(0, BigProgramInfo, <<VideoStream>>, 0)

GenuinePacket ==
  MakePacket(TargetPid, TRUE, -1, EncodePayload(0, <<>>, <<VideoStream, AudioStream>>, 0))

BigPacketA == MakePacket(TargetPid, TRUE, -1, Slice(BigPayload, 0, 184))

BigPacketB == MakePacket(TargetPid, FALSE, -1, Slice(BigPayload, 184, Len(BigPayload)))

\* the target PID carrying only stuffing after the pointer field
StuffingPacket == MakePacket(TargetPid, TRUE, -1, <<0>>)

\* the target PID carrying a section of another table (table id 0)
OtherTablePacket ==
  MakePacket(TargetPid, TRUE, -1,
    LET head == <<0, 176, 13, 0, 1, 193, 0, 0, 0, 1, 224, 100>>
    IN <<0>> \o head \o ComputeCRC(head))

\* the target PID carrying a PMT section too short to parse
ShortPacket == MakePacket(TargetPid, TRUE, -1, ShortSection(8))

\* a genuine PMT on another PID
OtherPidPacket ==
  MakePacket(101, TRUE, -1, EncodePayload(0, <<>>, <<DataStream>>, 0))

SourcePackets ==
  {GenuinePacket, BigPacketA, BigPacketB, StuffingPacket, OtherTablePacket,
   ShortPacket, OtherPidPacket}

InitRead ==
  /\ readSt \in {[on |-> TRUE, source |-> src, ends |-> e, pid |-> TargetPid,
                  pos |-> 0, pmtAcc |-> NewAccumulator("PmtAccumulatorDoneFunc"),
                  pc |-> "reading", result |-> Ok(EmptyPMT),
                  start |-> 0, restarts |-> 0] :
                   src \in SeqsUpTo(SourcePackets, MaxSource),
                   e \in {"EOF", "ErrClosedPipe"}}
  /\ accSt = Idle /\ parseSt = Idle /\ filtSt = Idle /\ crcSt = Idle

Return(r) == [readSt EXCEPT !.pc = "returned", !.result = r]

ReadPacket ==
  /\ readSt.on /\ readSt.pc = "reading"
  /\ IF readSt.pos = Len(readSt.source)
     THEN readSt' = Return(Err(IF readSt.ends = "EOF" THEN "ErrPMTNotFound"
                                                      ELSE readSt.ends))
     ELSE
       LET pkt == readSt.source[readSt.pos + 1]
           read == [readSt EXCEPT !.pos = readSt.pos + 1]
           w == WritePacket(readSt.pmtAcc, pkt)
           d == ReadPMTOnDone(w.acc)
       IN IF Pid(pkt) # readSt.pid THEN readSt' = read
          ELSE IF w.outcome = "ErrAccumulatorDone"
          THEN IF d.do = "restart"
               THEN readSt' = [read EXCEPT
                                 !.pmtAcc = NewAccumulator("PmtAccumulatorDoneFunc"),
                                 !.start = read.pos,
                                 !.restarts = readSt.restarts + 1]
               ELSE readSt' = [read EXCEPT !.pmtAcc = w.acc, !.pc = "returned",
                                           !.result = d.result]
          ELSE IF w.outcome # "nil"
          THEN readSt' = [read EXCEPT !.pmtAcc = w.acc, !.pc = "returned",
                                      !.result = Err(w.outcome)]
          ELSE readSt' = [read EXCEPT !.pmtAcc = w.acc]
  /\ UNCHANGED <<accSt, parseSt, filtSt, crcSt>>

NextRead == ReadPacket

SpecRead == InitRead /\ [][NextRead]_vars

IsTarget(pkt) == Pid(pkt) = TargetPid

\* the target-PID packets read since the current accumulator was created
TargetSince ==
  SelectSeq(SubSeq(readSt.source, readSt.start + 1, readSt.pos), IsTarget)

PayloadsOf(pkts) == Concat([i \in 1..Len(pkts) |-> Payload(pkts[i]).bytes])

(***************************************************************************)
(* C6: ReadPMT never returns successfully with a PMT that has no           *)
(* elementary streams; an accumulation that completes but parses to an     *)
(* empty PMT is dropped and a fresh accumulator started, and when the      *)
(* target-PID packets that follow form a genuine PMT that PMT is returned; *)
(* packets of another PID never reach the accumulated buffer.              *)
(***************************************************************************)
C6_EmptyPMTRetried ==
  readSt.on =>
    /\ (readSt.pc = "returned" /\ readSt.result.out = "ok")
         => Len(Pids(readSt.result.pmt)) > 0
    /\ Bytes(readSt.pmtAcc) = PayloadsOf(TargetSince)
    /\ (readSt.restarts >= 1 /\ TargetSince = <<GenuinePacket>>)
         => /\ readSt.pc = "returned" /\ readSt.result.out = "ok"
            /\ Pids(readSt.result.pmt) = <<257, 8191>>
    /\ (readSt.restarts >= 1 /\ TargetSince = <<BigPacketA, BigPacketB>>)
         => /\ readSt.pc = "returned" /\ readSt.result.out = "ok"
            /\ Pids(readSt.result.pmt) = <<257>>

\* an empty completion, a packet of another PID, then the genuine PMT
C6_Witness ==
  /\ readSt.on /\ readSt.pc = "returned" /\ readSt.result.out = "ok"
  /\ readSt.source = <<StuffingPacket, OtherPidPacket, GenuinePacket>>
  /\ readSt.restarts = 1
  /\ Pids(readSt.result.pmt) = <<257, 8191>>

(***************************************************************************)
(* ExtractCRC and CanBuildPMT.  A uint32 is the pair of its 16-bit halves, *)
(* high half first.                                                        *)
(***************************************************************************)
\* psi.SectionLength: the section_length of the section after the pointer
\* field; the payloads below all have pointer field 0
SectionLength(psi) == sectionLength(Slice(psi, 1 + PointerField(psi), Len(psi)))

BigEndianUint32(data) == <<data[1] * 256 + data[2], data[3] * 256 + data[4]>>

CanBuildPMT(payload, sl) == ~(Len(payload) < sl)

ExtractCRC(payload) ==
  IF Len(payload) < 4 THEN [out |-> "err", err |-> "ErrShortPayload", crc |-> <<0, 0>>]
  ELSE
    LET sl == SectionLength(payload)
        end == U16(PSIHeaderLen + sl)
    IN IF ~CanBuildPMT(payload, sl)
       THEN [out |-> "err", err |-> "ErrPMTParse", crc |-> <<0, 0>>]
       ELSE IF end > Len(payload)
       THEN [out |-> "panic", err |-> "", crc |-> <<0, 0>>]
       ELSE [out |-> "ok", err |-> "",
             crc |-> BigEndianUint32(Slice(payload, end - 4, end))]

\* pointer field 0 and a section_length that agrees with the payload's length
ConsistentPayloads ==
  {EncodePayload(0, pi, ss, 0) :
     ss \in SeqsUpTo(StreamKinds, MaxStreams), pi \in ProgramInfos}

CrcInputs ==
  {[kind |-> "consistent", payload |-> b] : b \in ConsistentPayloads}
  \cup {[kind |-> "short", payload |-> Slice(BasePayload, 0, n)] : n \in 0..3}
  \cup {[kind |-> "truncated", payload |-> Slice(b, 0, Len(b) - cut)] :
          b \in ConsistentPayloads, cut \in {1, 4, 5}}

InitCrc ==
  /\ crcSt \in {[on |-> TRUE, phase |-> "input", kind |-> in.kind,
                 payload |-> in.payload,
                 res |-> [out |-> "ok", err |-> "", crc |-> <<0, 0>>]] :
                  in \in CrcInputs}
  /\ accSt = Idle /\ parseSt = Idle /\ filtSt = Idle /\ readSt = Idle

DoExtractCRC ==
  /\ crcSt.on /\ crcSt.phase = "input"
  /\ crcSt' = [crcSt EXCEPT !.phase = "done", !.res = ExtractCRC(crcSt.payload)]
  /\ UNCHANGED <<accSt, parseSt, filtSt, readSt>>

NextCrc == DoExtractCRC

SpecCrc == InitCrc /\ [][NextCrc]_vars

(***************************************************************************)
(* C10: ExtractCRC returns a value or an error and never slices outside    *)
(* the payload: with at least 4 bytes and a section_length consistent with *)
(* the payload's length it returns the section's last 4 bytes as a         *)
(* big-endian uint32; with fewer than 4 bytes, or too few to hold the      *)
(* declared section and its CRC, it returns an error.                      *)
(***************************************************************************)
C10_ExtractCRCChecked ==
  (crcSt.on /\ crcSt.phase = "done") =>
    LET n == Len(crcSt.payload)
    IN /\ crcSt.res.out \in {"ok", "err"}
       /\ crcSt.kind = "consistent" =>
            /\ crcSt.res.out = "ok"
            /\ crcSt.res.crc = <<crcSt.payload[n - 3] * 256 + crcSt.payload[n - 2],
                                 crcSt.payload[n - 1] * 256 + crcSt.payload[n]>>
       /\ crcSt.kind \in {"short", "truncated"} => crcSt.res.out = "err"

(***************************************************************************)
(* FilterPMTPacketsToPids.  Its result is (packets, error): nilPackets     *)
(* tells a nil packet list from a list, nilError a nil error from one;     *)
(* err names the error and missingPids is the list formatted into          *)
(* ErrPIDNotInPMT.                                                         *)
(***************************************************************************)
RECURSIVE OrBits(_, _, _)
OrBits(a, b, n) ==
  IF n = 0 THEN 0
  ELSE (IF a % 2 = 1 \/ b % 2 = 1 THEN 1 ELSE 0)
         + 2 * OrBits(a \div 2, b \div 2, n - 1)

OrByte(a, b) == OrBits(a, b, 8)

FilterResult(nilPackets, packets, err, missingPids) ==
  [out |-> "ok", nilPackets |-> nilPackets, packets |-> packets,
   nilError |-> err = "", err |-> err, missingPids |-> missingPids]

FilterPanic ==
  [out |-> "panic", nilPackets |-> TRUE, packets |-> <<>>,
   nilError |-> TRUE, err |-> "", missingPids |-> <<>>]

pidIn(pids, target) == \E i \in 1..Len(pids) : pids[i] = target

\* the requested PIDs reported missing: not in the PMT, and neither the PAT
\* PID nor the PID of the first packet
MissingPids(unfilteredPMT, pids, pmtPid) ==
  LET Missing(pid) == ~PIDExists(unfilteredPMT, pid) /\ pid # PatPid /\ pid # pmtPid
  IN SelectSeq(pids, Missing)

\* the total-miss test with > for ==, which no list satisfies
NoneFoundNever(missingPids, pids) == Len(missingPids) > Len(pids)

\* none of the PIDs being filtered exists in the PMT
NoneFound(missingPids, pids) == Len(missingPids) = Len(pids)

\* the kept entry without its descriptors: the five static bytes only
KeptStreamStaticOnly(pmtPayload, offset, infoLength) ==
  LET last == U16(offset + pmtEsDescriptorStaticLen)
  IN IF offset > last \/ last > Len(pmtPayload)
     THEN [out |-> "panic", bytes |-> <<>>]
     ELSE [out |-> "ok", bytes |-> Slice(pmtPayload, offset, last)]

\* pmtPayload[offset : offset+pmtEsDescriptorStaticLen+infoLength], a uint16 sum
KeptStream(pmtPayload, offset, infoLength) ==
  LET last == U16(offset + pmtEsDescriptorStaticLen + infoLength)
  IN IF offset > last \/ last > Len(pmtPayload)
     THEN [out |-> "panic", bytes |-> <<>>]
     ELSE [out |-> "ok", bytes |-> Slice(pmtPayload, offset, last)]

\* the loop over the stream entries: the bytes of the entries whose PID is
\* requested
RECURSIVE filterStreams(_, _, _, _, _)
filterStreams(pmtPayload, pids, offset, end, kept) ==
  IF ~(offset < end) THEN [out |-> "ok", bytes |-> kept]
  ELSE IF offset + 4 >= Len(pmtPayload) THEN [out |-> "panic", bytes |-> <<>>]
  ELSE
    LET elementaryPid == ElementaryPidAt(pmtPayload, offset)
        infoLength == InfoLengthAt(pmtPayload, offset)
        k == IF pidIn(pids, elementaryPid)
             THEN KeptStream(pmtPayload, offset, infoLength)
             ELSE [out |-> "ok", bytes |-> <<>>]
    IN IF k.out # "ok" THEN k
       ELSE filterStreams(pmtPayload, pids,
                          U16(offset + pmtEsDescriptorStaticLen + infoLength),
                          end, kept \o k.bytes)

\* the section length without the pointer field taken off the buffer length
NewSectionLengthWholeBuffer(bufferLen, pointerField) == U16(bufferLen)

\* uint16(len(fPMT)) - uint16(pointerField-1), pointerField-1 a uint8
NewSectionLength(bufferLen, pointerField) ==
  U16(U16(bufferLen) + 65536 - U8(pointerField + 255))

safeSlice(byteArray, start, end) ==
  IF end < Len(byteArray) THEN Slice(byteArray, start, end)
  ELSE Slice(byteArray, start, Len(byteArray))

\* the padding written as zero bytes instead of the stuffing byte
padPacketZero(buf) ==
  IF Len(buf) >= PacketSize THEN Slice(buf, 0, PacketSize)
  ELSE buf \o Fill(PacketSize - Len(buf), 0)

padPacket(buf) ==
  IF Len(buf) >= PacketSize THEN Slice(buf, 0, PacketSize)
  ELSE buf \o Fill(PacketSize - Len(buf), 255)

\* the loop over the input packets: each output packet is the input packet's
\* header and as much of fPMT as fits, padded
RECURSIVE repack(_, _, _, _)
repack(packets, i, fPMT, filteredPMTPackets) ==
  IF i > Len(packets) \/ ~(Len(fPMT) > 0) THEN filteredPMTPackets
  ELSE
    LET header == Header(packets[i])
        toWrite == safeSlice(fPMT, 0, PacketSize - Len(header))
        rest == IF Len(toWrite) < Len(fPMT)
                THEN Slice(fPMT, Len(toWrite), Len(fPMT)) ELSE <<>>
    IN repack(packets, i + 1, rest,
              Append(filteredPMTPackets, padPacket(header \o toWrite)))

\* from the pointer field on: build the filtered section, patch its length,
\* append the CRC, split it over the packets
RewritePMT(packets, pids, payload, missingPids) ==
  LET pointerField == U8(PointerField(payload) + 1)
      pmtPayload == Slice(payload, pointerField, Len(payload))
      programInfoLength == ProgramInfoLengthAt(pmtPayload)
      programInfoEnd == U16(programInfoLengthOffset + 2 + programInfoLength)
      sl == sectionLength(pmtPayload)
      k == filterStreams(pmtPayload, pids, programInfoEnd, StreamLoopEnd(sl), <<>>)
      built == Slice(payload, 0, pointerField)
                 \o Slice(pmtPayload, 0, programInfoLengthOffset + 2)
                 \o (IF programInfoLength # 0
                     THEN Slice(pmtPayload, programInfoLengthOffset + 2, programInfoEnd)
                     ELSE <<>>)
                 \o k.bytes
      newSectionLength == NewSectionLength(Len(built), pointerField)
      hiAt == U8(pointerField + 1)
      loAt == U8(pointerField + 2)
      patched == Patch(Patch(built, hiAt,
                             OrByte(At(built, hiAt) - (At(built, hiAt) % 16),
                                    newSectionLength \div 256)),
                       loAt, newSectionLength % 256)
      fPMT == patched \o ComputeCRC(Slice(patched, pointerField, Len(patched)))
  IN IF pointerField > Len(payload) THEN FilterPanic
     ELSE IF Len(pmtPayload) < programInfoLengthOffset + 2 THEN FilterPanic
     ELSE IF programInfoLength # 0
             /\ (programInfoLengthOffset + 2 > programInfoEnd
                 \/ programInfoEnd > Len(pmtPayload)) THEN FilterPanic
     ELSE IF k.out # "ok" THEN FilterPanic
     ELSE IF hiAt >= Len(built) \/ loAt >= Len(built) THEN FilterPanic
     ELSE FilterResult(FALSE, repack(packets, 1, fPMT, <<>>),
                       IF Len(missingPids) > 0 THEN "ErrPIDNotInPMT" ELSE "",
                       missingPids)

\* NewPMT's error is dropped, so a failed parse leaves unfilteredPMT nil and
\* the first PIDExists call on it panics
FilterPMTPacketsToPids(packets, pids) ==
  IF Len(packets) = 0 THEN FilterResult(TRUE, <<>>, "", <<>>)
  ELSE IF Len(pids) = 0 THEN FilterResult(FALSE, packets, "", <<>>)
  ELSE IF \E i \in 1..Len(packets) : ~Payload(packets[i]).ok
  THEN FilterResult(TRUE, <<>>, "ErrNoPayload", <<>>)
  ELSE
    LET payload == Concat([i \in 1..Len(packets) |-> Payload(packets[i]).bytes])
        unfilteredPMT == NewPMT(payload)
        missingPids == MissingPids(unfilteredPMT.pmt, pids, Pid(packets[1]))
    IN IF unfilteredPMT.out # "ok" THEN FilterPanic
       ELSE IF NoneFound(missingPids, pids)
       THEN FilterResult(TRUE, <<>>, "ErrPIDNotInPMT", missingPids)
       ELSE RewritePMT(packets, pids, payload, missingPids)

(***************************************************************************)
(* Inputs of FilterPMTPacketsToPids: the packets of one PMT carried on     *)
(* PmtPid, and the requested PIDs.  kind and streams record how the        *)
(* packets were built.                                                     *)
(***************************************************************************)
PmtPid == 100

\* the payload split over packets of PID pid with four-byte headers
RECURSIVE Packetize(_, _, _)
Packetize(pid, payload, first) ==
  IF Len(payload) <= PacketSize - 4
  THEN <<MakePacket(pid, first, -1, payload)>>
  ELSE <<MakePacket(pid, first, -1, Slice(payload, 0, PacketSize - 4))>>
         \o Packetize(pid, Slice(payload, PacketSize - 4, Len(payload)), FALSE)

\* the requested PID lists tried on every PMT, besides the PMT's own PIDs
PidChoices ==
  {<<>>, <<257>>, <<33, 257>>, <<8191, 999>>, <<999>>, <<999, 998>>,
   <<0>>, <<0, 999>>, <<257, 0>>, <<100, 8191>>, <<100>>}

OwnPids(streams) == [i \in 1..Len(streams) |-> streams[i].elementaryPid]

\* a program descriptor that makes the three-stream table need two packets
\* and the one-stream table one
MediumProgramInfo == <<5, 148>> \o Fill(148, 66)

ShrinkingStreams == <<VideoStream, AudioStream, DataStream>>

\* adaptation_field_length of the packet that has an adaptation field
AdaptationLen == 7

CanonicalPMTs ==
  {[kind |-> "canonical", streams |-> ss,
    packets |-> Packetize(PmtPid, EncodePayload(f[1], f[2], ss, 0), TRUE)] :
     ss \in SeqsUpTo(StreamKinds, MaxStreams),
     f \in {<<0, <<>>>>, <<2, <<5, 2, 67, 85>>>>}}
  \cup
  {[kind |-> "canonical", streams |-> ss,
    packets |-> Packetize(PmtPid, EncodePayload(0, BigProgramInfo, ss, 0), TRUE)] :
     ss \in {<<VideoStream>>, <<DataStream, AudioStream, VideoStream>>}}
  \cup
  {[kind |-> "canonical", streams |-> ShrinkingStreams,
    packets |-> Packetize(PmtPid,
                          EncodePayload(0, MediumProgramInfo, ShrinkingStreams, 0),
                          TRUE)],
   [kind |-> "canonical", streams |-> <<AudioStream, VideoStream>>,
    packets |-> <<MakePacket(PmtPid, TRUE, AdaptationLen,
                             EncodePayload(2, <<>>, <<AudioStream, VideoStream>>, 0))>>]}

MalformedPMTs ==
  {[kind |-> "malformed", streams |-> <<>>, packets |-> <<pkt>>] :
     pkt \in {MakePacket(PmtPid, TRUE, -1, ShortSection(8)),
              MakePacket(PmtPid, TRUE, -1, Patch(Patch(BasePayload, 2, 191), 3, 255)),
              MakePacket(PmtPid, TRUE, -1, Patch(Patch(BasePayload, 11, 255), 12, 255)),
              MakePacket(PmtPid, TRUE, -1, Patch(Patch(BasePayload, 21, 255), 22, 255)),
              MakePacket(PmtPid, TRUE, -1, Patch(BasePayload, 0, 200))}}

\* an adaptation field and no payload
NoPayloadPacket == Patch(MakePacket(PmtPid, TRUE, 183, <<>>), 3, 32)

FilterInputs ==
  {[kind |-> in.kind, streams |-> in.streams, packets |-> in.packets, pids |-> ps] :
     in \in CanonicalPMTs \cup MalformedPMTs,
     ps \in PidChoices}
  \cup {[kind |-> in.kind, streams |-> in.streams, packets |-> in.packets,
         pids |-> OwnPids(in.streams)] : in \in CanonicalPMTs}
  \cup {[kind |-> "nopackets", streams |-> <<>>, packets |-> <<>>, pids |-> <<257>>],
        [kind |-> "nopayload", streams |-> <<>>,
         packets |-> <<NoPayloadPacket>>, pids |-> <<257>>]}

InitFilter ==
  /\ filtSt \in {[on |-> TRUE, phase |-> "input", kind |-> in.kind,
                  streams |-> in.streams, packets |-> in.packets, pids |-> in.pids,
                  res |-> FilterResult(TRUE, <<>>, "", <<>>)] : in \in FilterInputs}
  /\ accSt = Idle /\ parseSt = Idle /\ readSt = Idle /\ crcSt = Idle

DoFilterPMTPacketsToPids ==
  /\ filtSt.on /\ filtSt.phase = "input"
  /\ filtSt' = [filtSt EXCEPT
                  !.phase = "done",
                  !.res = FilterPMTPacketsToPids(filtSt.packets, filtSt.pids)]
  /\ UNCHANGED <<accSt, parseSt, readSt, crcSt>>

NextFilter == DoFilterPMTPacketsToPids

SpecFilter == InitFilter /\ [][NextFilter]_vars

FilterDone == filtSt.on /\ filtSt.phase = "done"

\* the concatenated payload of a packet list
PayloadOf(packets) == Concat([i \in 1..Len(packets) |-> Payload(packets[i]).bytes])

\* the PMT section of a packet list: from the table id through the CRC
SectionOf(packets) ==
  LET payload == PayloadOf(packets)
      start == PointerField(payload) + 1
      section == Slice(payload, start, Len(payload))
  IN Slice(section, 0, 3 + sectionLength(section))

\* S: the elementary-stream PIDs of the input PMT
InputPids == {filtSt.streams[i].elementaryPid : i \in 1..Len(filtSt.streams)}

Requested(pid) == pidIn(filtSt.pids, pid)

\* the requested PIDs absent from S, in request order
AbsentPids == SelectSeq(filtSt.pids, LAMBDA pid : pid \notin InputPids)

\* those of them that are neither the PAT PID nor the PID carrying the PMT
AbsentElementaryPids ==
  SelectSeq(filtSt.pids,
            LAMBDA pid : pid \notin InputPids /\ pid # PatPid
                         /\ pid # Pid(filtSt.packets[1]))

\* some but not all members of P are in S
PartialRequest ==
  /\ FilterDone /\ filtSt.kind = "canonical"
  /\ \E i \in 1..Len(filtSt.pids) : filtSt.pids[i] \in InputPids
  /\ \E i \in 1..Len(filtSt.pids) : filtSt.pids[i] \notin InputPids

\* no member of P is in S
DisjointRequest ==
  /\ FilterDone /\ filtSt.kind = "canonical"
  /\ filtSt.pids # <<>>
  /\ \A i \in 1..Len(filtSt.pids) : filtSt.pids[i] \notin InputPids

\* the returned packets parse to the input's streams with PID in P, in their
\* original order with their original descriptors
OutputIsFiltered ==
  LET parsed == NewPMT(PayloadOf(filtSt.res.packets))
      kept == SelectSeq(filtSt.streams, LAMBDA es : Requested(es.elementaryPid))
  IN /\ parsed.out = "ok"
     /\ ElementaryStreams(parsed.pmt) = kept
     /\ Pids(parsed.pmt) = [i \in 1..Len(kept) |-> kept[i].elementaryPid]

OwnRequest ==
  /\ FilterDone /\ filtSt.kind = "canonical"
  /\ filtSt.pids = OwnPids(filtSt.streams)

(***************************************************************************)
(* C5: filtering a canonical PMT to the full set of its own                *)
(* elementary-stream PIDs returns a nil error and packets whose section    *)
(* bytes, section_length and CRC included, equal the input's; filtering    *)
(* the output again with the same PIDs changes nothing.                    *)
(***************************************************************************)
C5_OwnPidsIsIdentity ==
  OwnRequest =>
    /\ filtSt.res.out = "ok"
    /\ filtSt.res.nilError
    /\ ~filtSt.res.nilPackets
    /\ SectionOf(filtSt.res.packets) = SectionOf(filtSt.packets)
    /\ FilterPMTPacketsToPids(filtSt.res.packets, filtSt.pids) = filtSt.res

\* three streams behind a pointer field of 2 and a program descriptor
C5_Witness ==
  /\ OwnRequest
  /\ filtSt.streams = <<VideoStream, AudioStream, DataStream>>
  /\ PointerField(PayloadOf(filtSt.packets)) = 2
  /\ filtSt.res.packets = filtSt.packets

(***************************************************************************)
(* C9 as stated: for every non-empty packet list and non-empty PID set,    *)
(* the call does not panic, and when the unfiltered input fails to parse   *)
(* as a PMT it returns an error.                                           *)
(***************************************************************************)
C9_FilterNeverPanics ==
  (FilterDone /\ filtSt.packets # <<>> /\ filtSt.pids # <<>>) =>
    /\ filtSt.res.out # "panic"
    /\ (\A i \in 1..Len(filtSt.packets) : Payload(filtSt.packets[i]).ok)
         => (NewPMT(PayloadOf(filtSt.packets)).out # "ok" => ~filtSt.res.nilError)

\* the call went through the rewrite and returned packets
BuiltOutput ==
  /\ FilterDone /\ filtSt.kind = "canonical"
  /\ filtSt.pids # <<>>
  /\ filtSt.res.out = "ok" /\ ~filtSt.res.nilPackets

\* the bytes that follow the header in output packet i, the header being as
\* long as input packet i's
BodyOf(i) ==
  Slice(filtSt.res.packets[i], Len(Header(filtSt.packets[i])),
        Len(filtSt.res.packets[i]))

\* the length of the rewritten PMT carried by the output: the pointer field,
\* the bytes it skips, and the section through its CRC
RewrittenLen ==
  LET body == BodyOf(1)
      start == PointerField(body) + 1
  IN start + 3 + sectionLength(Slice(body, start, Len(body)))

\* the room for PMT bytes in the first n output packets
RoomIn(n) ==
  Len(Concat([i \in 1..n |-> BodyOf(i)]))

\* the rewritten PMT is whole: the input's bytes up to the section, then a
\* section that parses to the requested streams and ends in its own CRC
RewrittenIsWhole(bytes) ==
  LET start == PointerField(bytes) + 1
      section == Slice(bytes, start, Len(bytes))
      body == Slice(section, 0, Len(section) - CrcLen)
  IN /\ Slice(bytes, 0, start) = Slice(PayloadOf(filtSt.packets), 0, start)
     /\ Slice(section, Len(section) - CrcLen, Len(section)) = ComputeCRC(body)
     /\ OutputIsFiltered

(***************************************************************************)
(* C11: when the call builds output for a complete PMT, it returns between *)
(* one packet and as many as it was given; output packet i is 188 bytes    *)
(* and begins with input packet i's header; the bytes after the headers,   *)
(* in packet order, are the whole rewritten PMT (pointer field, section,   *)
(* CRC), which ends in the last packet; every byte after it is 0xFF; and   *)
(* the call leaves the input packets as they were.                         *)
(***************************************************************************)
C11_RepackedOutput ==
  /\ [](BuiltOutput =>
         LET n == Len(filtSt.res.packets)
             all == Concat([i \in 1..n |-> BodyOf(i)])
         IN /\ 1 <= n /\ n <= Len(filtSt.packets)
            /\ \A i \in 1..n :
                 /\ Len(filtSt.res.packets[i]) = PacketSize
                 /\ Slice(filtSt.res.packets[i], 0, Len(Header(filtSt.packets[i])))
                      = Header(filtSt.packets[i])
            /\ RewrittenLen <= Len(all)
            /\ RewrittenLen > RoomIn(n - 1)
            /\ RewrittenIsWhole(Slice(all, 0, RewrittenLen))
            /\ \A j \in RewrittenLen..(Len(all) - 1) : At(all, j) = 255)
  /\ [][DoFilterPMTPacketsToPids => filtSt'.packets = filtSt.packets]_vars

\* a three-stream table of two packets rewritten into one
C11_Witness ==
  /\ BuiltOutput
  /\ Len(filtSt.packets) = 2
  /\ Len(filtSt.res.packets) = 1
  /\ filtSt.pids = <<257>>
  /\ RewrittenLen < RoomIn(1)

\* an output packet that keeps the adaptation field of its input packet
C11_WitnessHeader ==
  /\ BuiltOutput
  /\ Len(Header(filtSt.packets[1])) = 4 + 1 + AdaptationLen
  /\ filtSt.pids = <<257>>

====
